---------------------------- MODULE Spec2Model ----------------------------
(***************************************************************************)
(* Model of the solar-flare analysis service (enhanced_python_api.py).     *)
(*                                                                         *)
(* Units.  The source works on floats; the model uses fixed point:         *)
(*   intensity, amplitude, alpha, confidence : tenths (0.1 is 1, 2.0 is 20)*)
(*   energy                                  : multiples of 1e26           *)
(* Objects.  Python lists hold references to dicts, and _detect_nanoflares *)
(* mutates the dicts it is given.  The model keeps the dicts in `heap`     *)
(* (object id -> dict) and lists are sequences of object ids.              *)
(***************************************************************************)
EXTENDS Integers, Sequences, FiniteSets, TLC

VARIABLES
    ML_AVAILABLE,     \* module global, set by the import at lines 30-41
    initialized,      \* analyzer.initialized
    sequence_length,  \* analyzer.ml_model.sequence_length
    pc,               \* position of the request inside analyze_file
    file_path,        \* argument of analyze_file (its suffix decides the loader)
    data,             \* local of analyze_file: what _load_data_file returned
    processed_data,   \* local of analyze_file: what _preprocess_data returned
    sequences,        \* local of _run_ml_analysis: the windows given to predict
    predictions,      \* what ml_model.model.predict returned
    predictCalls,     \* number of predict calls made by the current request
    heap,             \* the flare dicts created by the current request
    ml_results,       \* local of analyze_file: list of flare references
    nanoflares,       \* local of analyze_file: list of flare references
    energy_analysis,  \* local of analyze_file
    visualizations,   \* local of analyze_file
    error,            \* the exception caught by analyze_file, if any
    result,           \* what analyze_file returned
    arg,              \* input of the function under test (function-level specs)
    ret,              \* its output
    uploads,          \* the files of UPLOAD_FOLDER: path -> content
    threads           \* the /analyze requests being served, one per thread

vars == <<ML_AVAILABLE, initialized, sequence_length, pc, file_path, data,
          processed_data, sequences, predictions, predictCalls, heap,
          ml_results, nanoflares, energy_analysis, visualizations, error,
          result, arg, ret,
          uploads, threads>>

\* Python values of several kinds are records tagged by `kind`
None == [kind |-> "None"]

Raised == [kind |-> "raise"]

-----------------------------------------------------------------------------
(* Bounds of the enumeration *)

\* rows of an uploaded series
MaxRows == 6
\* parameter groups (of 5 scalars) in one window's parameter block
MaxGroups == 1
\* events drawn by the synthetic generator (30..79 in the source)
MaxMockFlares == 1
\* sequence lengths and series lengths tried by the windowing specification
MaxSeqLen == 5
MaxWinRows == 9

-----------------------------------------------------------------------------
(* Program constants *)

\* sequence_length=512 at line 82, scaled down to keep the windows small
ModelSequenceLength == 4
\* n_features=2 at line 83
n_features == 2
\* np.abs(flare_param[0]) > 0.1, in tenths
AmplitudeThreshold == 1
\* abs(alpha) > 2.0, in tenths
AlphaThreshold == 20
\* intensity < 100, in tenths
NanoIntensityLimit == 1000
\* _classify_flare_type thresholds, in tenths
XClassThreshold == 10000
MajorThreshold == 5000
MinorThreshold == 1000
MicroThreshold == 500
\* classification default 0.5, in tenths
DefaultConfidence == 5
\* np.histogram(..., bins=20)
NumBins == 20
\* power_law_index default -2.0, in tenths
DefaultPowerLawIndex == -20

-----------------------------------------------------------------------------
(* Generic helpers *)

Abs(x) == IF x < 0 THEN -x ELSE x

Min(a, b) == IF a <= b THEN a ELSE b

Range(s) == {s[k] : k \in DOMAIN s}

RECURSIVE SumSeq(_)
SumSeq(s) == IF s = <<>> THEN 0 ELSE Head(s) + SumSeq(Tail(s))

RECURSIVE SelectIdx(_, _, _)
\* the indices k (ascending) of 1..n for which keep[k] holds, as a sequence
SelectIdx(keep, k, n) ==
    IF k > n THEN <<>>
    ELSE (IF keep[k] THEN <<k>> ELSE <<>>) \o SelectIdx(keep, k + 1, n)

RECURSIVE Flatten(_)
Flatten(ss) == IF ss = <<>> THEN <<>> ELSE Head(ss) \o Flatten(Tail(ss))

-----------------------------------------------------------------------------
(* Series: what the loaders return *)

\* the value stored at row i, column c of an uploaded series (never zero, so
\* that data and zero padding can be told apart)
Cell(i, c) == 10 * i + c

\* a 2-D ndarray of shape (L, nc) holding the series
Array2D(L, nc) ==
    [kind |-> "ndarray", ndim |-> 2, ncols |-> nc,
     rows |-> [i \in 1..L |-> [c \in 1..nc |-> Cell(i, c)]]]

\* a 1-D ndarray of shape (L,)
Array1D(L) ==
    [kind |-> "ndarray", ndim |-> 1, ncols |-> 0,
     rows |-> [i \in 1..L |-> Cell(i, 1)]]

\* a pandas DataFrame with L rows, nc numeric columns (and any other columns)
DataFrame(L, nc) == [kind |-> "DataFrame", nrows |-> L, numeric_cols |-> nc]

ColumnCounts == 1..(n_features + 1)

DataFrames == {DataFrame(L, nc) : L \in 0..MaxRows, nc \in 0..(n_features + 1)}

Arrays == {Array1D(L) : L \in 0..MaxRows}
          \cup {Array2D(L, nc) : L \in 0..MaxRows, nc \in ColumnCounts}

\* Path(file_path).suffix.lower() of the paths tried
Suffixes == {".nc", ".h5", ".hdf5", ".csv", ".txt", ".fits", ".json", ""}

\* what data_loader.load_goes_data can do: raise, or return anything
GoesOutcomes == {Raised, None} \cup Arrays \cup DataFrames

\* what pd.read_csv can do: raise, or return a DataFrame
CsvOutcomes == {Raised} \cup DataFrames

ReaderOutcomes(suffix) ==
    IF suffix \in {".nc", ".h5", ".hdf5"} THEN GoesOutcomes
    ELSE IF suffix \in {".csv", ".txt"} THEN CsvOutcomes
    ELSE {None}

\* _load_data_file: `outcome` is what the reader chosen by the suffix did
_load_data_file(suffix, outcome) ==
    IF suffix \in {".nc", ".h5", ".hdf5"}
    THEN (IF outcome = Raised THEN None ELSE outcome)
    ELSE IF suffix = ".csv"
    THEN (IF outcome = Raised THEN None ELSE outcome)
    ELSE IF suffix = ".txt"
    THEN (IF outcome = Raised THEN None ELSE outcome)
    ELSE None

\* numeric_data.empty: a frame is empty when either axis has length 0
NumericEmpty(d) == d.nrows = 0 \/ d.numeric_cols = 0

\* _preprocess_data: [raised, value]
_preprocess_data(d) ==
    IF d.kind = "DataFrame"
    THEN IF NumericEmpty(d)
         THEN [raised |-> TRUE, value |-> "No numerical data found in file"]
         ELSE [raised |-> FALSE, value |-> Array2D(d.nrows, d.numeric_cols)]
    ELSE [raised |-> FALSE, value |-> d]

-----------------------------------------------------------------------------
(* Windowing (first half of _run_ml_analysis) *)

\* data.reshape(-1, 1) for 1-D input, then truncation or zero padding of the
\* columns to n_features
AdjustColumns(d) ==
    LET d2 == IF d.ndim = 1
              THEN [d EXCEPT !.ndim = 2, !.ncols = 1,
                             !.rows = [i \in 1..Len(d.rows) |-> <<d.rows[i]>>]]
              ELSE d
    IN  IF d2.ncols = n_features THEN d2
        ELSE [d2 EXCEPT !.ncols = n_features,
                        !.rows = [i \in 1..Len(d2.rows) |->
                                    [c \in 1..n_features |->
                                        IF c <= d2.ncols THEN d2.rows[i][c] ELSE 0]]]

\* the values of range(0, len - n + 1, stride), stride > 0, as a sequence
WindowStarts(len, n, stride) ==
    LET count == IF len - n + 1 <= 0 THEN 0 ELSE ((len - n) \div stride) + 1
    IN  [k \in 1..count |-> (k - 1) * stride]

\* the short series used as the window as it is, without padding
PaddedWindow_Unpadded(rows, n) == rows

\* np.zeros((n, n_features)) with the series copied into its first rows
PaddedWindow(rows, n) ==
    [r \in 1..n |-> IF r <= Len(rows) THEN rows[r] ELSE [c \in 1..n_features |-> 0]]

\* the loop at lines 217-218 and the padding at lines 220-224.  range() raises
\* ValueError when its step, n // 2, is zero.
SegmentSequences(d, n) ==
    LET stride == n \div 2
        len == Len(d.rows)
    IN  IF stride = 0
        THEN [raised |-> TRUE, starts |-> <<>>, windows |-> <<>>]
        ELSE LET starts == WindowStarts(len, n, stride)
                 looped == [k \in 1..Len(starts) |->
                              [r \in 1..n |-> d.rows[starts[k] + r]]]
             IN  IF looped = <<>>
                 THEN [raised |-> FALSE, starts |-> <<>>,
                       windows |-> <<PaddedWindow(d.rows, n)>>]
                 ELSE [raised |-> FALSE, starts |-> starts, windows |-> looped]

-----------------------------------------------------------------------------
(* Predictions and their decoding (_convert_predictions_to_flares) *)

\* amplitudes tried, in tenths: -2000.0, -0.1, 0.2, 60.0, 120.0
Amplitudes == {-20000, -1, 2, 600, 1200}

\* np.random.normal(0, 2) outcomes tried, in tenths: -2.1, 1.0, 2.0
Alphas == {-21, 10, 20}

\* the two alphas that decide the nanoflare test, in tenths: -2.1, 2.0
DecodeAlphas == {-21, 20}

\* energies tried, in units of 1e26: the model may estimate anything, the
\* exponential law only draws positive values
Energies == {0, 1, 100}

PositiveEnergies == {e \in Energies : e > 0}

RECURSIVE GroupsOf(_)
\* the flat array holding the parameter groups with the given amplitudes
GroupsOf(amps) ==
    IF amps = <<>> THEN <<>>
    ELSE <<Head(amps), 2, 1, 3, 100>> \o GroupsOf(Tail(amps))

\* one window's parameter block: whole groups followed by `extra` scalars
Block(amps, extra) == GroupsOf(amps) \o [k \in 1..extra |-> 7]

AmplitudeSeqs(maxGroups) ==
    UNION {[1..g -> Amplitudes] : g \in 0..maxGroups}

Blocks == {Block(amps, extra) : amps \in AmplitudeSeqs(MaxGroups), extra \in {0, 2}}

\* the timestamp with the hour not reduced modulo 24
_generate_timestamp_NoWrap(sequence_idx, flare_idx) ==
    LET half_hours == sequence_idx * 12 + flare_idx
    IN  <<2024, 1, 1, half_hours \div 2, (half_hours % 2) * 30, 0>>

\* _generate_timestamp: "2024-01-01THH:MM:00Z" as <<year, month, day, hour,
\* minute, second>>; offset_hours = i * 6 + j * 0.5 is counted in half hours
_generate_timestamp(sequence_idx, flare_idx) ==
    LET half_hours == sequence_idx * 12 + flare_idx
    IN  <<2024, 1, 1, (half_hours \div 2) % 24, (half_hours % 2) * 30, 0>>
\* the cascade with the micro boundary given to the upper class
_classify_flare_type_Inclusive(intensity) ==
    IF intensity > XClassThreshold THEN "X-class"
    ELSE IF intensity > MajorThreshold THEN "major"
    ELSE IF intensity > MinorThreshold THEN "minor"
    ELSE IF intensity >= MicroThreshold THEN "micro"
    ELSE "nano"

\* _classify_flare_type
_classify_flare_type(intensity) ==
    IF intensity > XClassThreshold THEN "X-class"
    ELSE IF intensity > MajorThreshold THEN "major"
    ELSE IF intensity > MinorThreshold THEN "minor"
    ELSE IF intensity > MicroThreshold THEN "micro"
    ELSE "nano"

\* params.reshape(-1, 5): the rows of the reshaped block (length a multiple of 5)
Reshape5(params) ==
    [g \in 1..(Len(params) \div 5) |-> SubSeq(params, 5 * (g - 1) + 1, 5 * g)]

\* the three arrays read at lines 239-247; rnd holds the random draws
FlareParams(p) == p.flare_params

EnergyEstimates(p, rnd) ==
    IF p.kind = "dict" THEN p.energy_estimates
    ELSE [i \in 1..Len(p.flare_params) |-> rnd.energy_array[i]]

Classification(p, rnd) ==
    IF p.kind = "dict" THEN p.classification
    ELSE [i \in 1..Len(p.flare_params) |-> rnd.class_array[i]]

\* the dict built at lines 257-268 for group j (0-based) of window i (0-based)
FlareDict(p, rnd, i, j, flare_param) ==
    LET energy_estimates == EnergyEstimates(p, rnd)
        classification == Classification(p, rnd)
    IN  [timestamp  |-> _generate_timestamp(i, j),
         intensity  |-> Abs(flare_param[1]),
         energy     |-> IF i < Len(energy_estimates)
                        THEN energy_estimates[i + 1] ELSE rnd.energy[<<i, j>>],
         alpha      |-> rnd.alpha[<<i, j>>],
         peak_time  |-> flare_param[2],
         rise_time  |-> flare_param[3],
         decay_time |-> flare_param[4],
         background |-> flare_param[5],
         confidence |-> IF i < Len(classification)
                        THEN classification[i + 1] ELSE DefaultConfidence,
         flare_type |-> _classify_flare_type(flare_param[1])]
\* the amplitude test with the threshold itself let through
Significant_Inclusive(flare_param) == Abs(flare_param[1]) >= AmplitudeThreshold

\* the test at line 256
Significant(flare_param) == Abs(flare_param[1]) > AmplitudeThreshold

\* the flares decoded from window i (0-based): the inner loop at lines 255-269
WindowFlares(p, rnd, i) ==
    LET params == FlareParams(p)[i + 1]
    IN  IF Len(params) >= 5
        THEN LET param_group == Reshape5(params)
                 keep == [g \in 1..Len(param_group) |-> Significant(param_group[g])]
                 kept == SelectIdx(keep, 1, Len(param_group))
             IN  [k \in 1..Len(kept) |->
                    FlareDict(p, rnd, i, kept[k] - 1, param_group[kept[k]])]
        ELSE <<>>

\* _convert_predictions_to_flares: [raised, flares].  reshape(-1, 5) raises
\* ValueError on a block whose length is not a multiple of 5.
_convert_predictions_to_flares(p, rnd) ==
    LET flare_params == FlareParams(p)
        bad == {i \in 1..Len(flare_params) :
                  Len(flare_params[i]) >= 5 /\ Len(flare_params[i]) % 5 # 0}
    IN  IF bad # {}
        THEN [raised |-> TRUE, flares |-> <<>>]
        ELSE [raised |-> FALSE,
              flares |-> Flatten([i \in 1..Len(flare_params) |->
                                    WindowFlares(p, rnd, i - 1)])]

-----------------------------------------------------------------------------
(* Nanoflare detection (_detect_nanoflares) *)
\* the real-path test with the intensity criterion left out
NanoflareCriteria_NoIntensity(flare) ==
    \/ Abs(flare.alpha) > AlphaThreshold
    \/ flare.flare_type = "nano"

\* the test at lines 300-302 on one flare dict
NanoflareCriteria(flare) ==
    \/ Abs(flare.alpha) > AlphaThreshold
    \/ flare.intensity < NanoIntensityLimit
    \/ flare.flare_type = "nano"

\* min(abs(alpha) / 2.0, 1.0), in hundredths
NanoflareConfidence(flare) == Min(Abs(flare.alpha) * 5, 100)

\* lines 304-305: the two keys are written into the dict itself
MarkNanoflare(flare) ==
    ("is_nanoflare" :> TRUE) @@ ("nanoflare_confidence" :> NanoflareConfidence(flare))
    @@ flare

\* _detect_nanoflares: the heap after the loop and the list it returns
_detect_nanoflares(h, refs) ==
    LET keep == [k \in 1..Len(refs) |-> NanoflareCriteria(h[refs[k]])]
        kept == SelectIdx(keep, 1, Len(refs))
        hit  == {refs[k] : k \in Range(kept)}
    IN  [heap |-> [o \in DOMAIN h |-> IF o \in hit THEN MarkNanoflare(h[o]) ELSE h[o]],
         nanoflares |-> [k \in 1..Len(kept) |-> refs[kept[k]]]]

\* the dicts a list of references points to
Deref(h, refs) == [k \in 1..Len(refs) |-> h[refs[k]]]

-----------------------------------------------------------------------------
(* Energy analysis (_analyze_energies) *)

\* the quotient taken the wrong way round: den / num
Ratio_Inverted(num, den) == [num |-> den, den |-> num]

\* a float that is not an integer of the model's unit: num / den
Ratio(num, den) == [num |-> num, den |-> den]

MinOf(S) == CHOOSE x \in S : \A y \in S : x <= y

MaxOf(S) == CHOOSE x \in S : \A y \in S : x >= y

RECURSIVE Insert(_, _)
Insert(x, s) ==
    IF s = <<>> THEN <<x>>
    ELSE IF x < Head(s) THEN <<x>> \o s
    ELSE <<Head(s)>> \o Insert(x, Tail(s))

RECURSIVE SortAscending(_)
\* the sequence in ascending order
SortAscending(s) == IF s = <<>> THEN <<>> ELSE Insert(Head(s), SortAscending(Tail(s)))

RECURSIVE Pow10(_)
Pow10(k) == IF k = 0 THEN 1 ELSE 10 * Pow10(k - 1)

\* np.log10 of a positive energy (the energies tried are powers of ten)
Log10(e) == CHOOSE k \in 0..8 : Pow10(k) = e

\* the edges without the widening of an empty range
HistogramEdges_NoWiden(values) ==
    LET lo == MinOf(Range(values))
        hi == MaxOf(Range(values))
    IN  [b \in 1..(NumBins + 1) |-> NumBins * lo + (hi - lo) * (b - 1)]

\* the 21 edges of np.histogram(values, bins=20), in twentieths: the range is
\* (min, max), widened to (min - 0.5, max + 0.5) when min = max
HistogramEdges(values) ==
    LET lo == MinOf(Range(values))
        hi == MaxOf(Range(values))
    IN  IF lo = hi
        THEN [b \in 1..(NumBins + 1) |-> NumBins * lo - (NumBins \div 2) + (b - 1)]
        ELSE [b \in 1..(NumBins + 1) |-> NumBins * lo + (hi - lo) * (b - 1)]

\* the bin (1..20) np.histogram puts v in: bins are closed on the left, the
\* last one is closed on both sides
BinOf(v, values) ==
    LET lo == MinOf(Range(values))
        hi == MaxOf(Range(values))
    IN  IF lo = hi THEN (NumBins \div 2) + 1
        ELSE IF v = hi THEN NumBins
        ELSE (((v - lo) * NumBins) \div (hi - lo)) + 1

HistogramCounts(values) ==
    [b \in 1..NumBins |-> Cardinality({k \in DOMAIN values : BinOf(values[k], values) = b})]

\* np.median
Median(values) ==
    LET sorted == SortAscending(values)
        n == Len(values)
    IN  IF n % 2 = 1 THEN Ratio(sorted[(n + 1) \div 2], 1)
        ELSE Ratio(sorted[n \div 2] + sorted[(n \div 2) + 1], 2)

\* the fit attempted from two populated bins on
PowerLawIndex_FitFromTwo(counts) ==
    LET valid_idx == {b \in DOMAIN counts : counts[b] > 0}
    IN  IF Cardinality(valid_idx) > 1
        THEN [kind |-> "polyfit", bins |-> valid_idx]
        ELSE [kind |-> "default", value |-> DefaultPowerLawIndex]

\* lines 323-332: the slope np.polyfit returns is a float the model does not
\* compute; it is named by the populated bins it was fitted on
PowerLawIndex(counts) ==
    LET valid_idx == {b \in DOMAIN counts : counts[b] > 0}
    IN  IF Cardinality(valid_idx) > 2
        THEN [kind |-> "polyfit", bins |-> valid_idx]
        ELSE [kind |-> "default", value |-> DefaultPowerLawIndex]

Energies_of(flares) == [k \in 1..Len(flares) |-> flares[k].energy]

\* _analyze_energies on the dicts of the two lists: [raised, value].
\* np.log10 of an energy <= 0 is -inf or nan, and np.histogram raises
\* ValueError on a range that is not finite.
_analyze_energies(flares, nanos) ==
    LET all_energies == Energies_of(flares)
        nano_energies == Energies_of(nanos)
    IN  IF all_energies = <<>>
        THEN [raised |-> FALSE, value |-> [error |-> "No energy data available"]]
        ELSE IF \E k \in DOMAIN all_energies : all_energies[k] <= 0
        THEN [raised |-> TRUE, value |-> "autodetected range is not finite"]
        ELSE LET log_energies == [k \in DOMAIN all_energies |-> Log10(all_energies[k])]
                 energy_counts == HistogramCounts(log_energies)
                 energy_bins == HistogramEdges(log_energies)
             IN  [raised |-> FALSE,
                  value |->
                    [total_energy   |-> SumSeq(all_energies),
                     average_energy |-> Ratio(SumSeq(all_energies), Len(all_energies)),
                     median_energy  |-> Median(all_energies),
                     energy_range   |-> <<MinOf(Range(all_energies)),
                                          MaxOf(Range(all_energies))>>,
                     power_law_index |-> PowerLawIndex(energy_counts),
                     nanoflare_energy_fraction |->
                        IF nano_energies # <<>>
                        THEN Ratio(SumSeq(nano_energies), SumSeq(all_energies))
                        ELSE Ratio(0, 1),
                     energy_distribution |->
                        [bins |-> energy_bins, counts |-> energy_counts]]]

-----------------------------------------------------------------------------
(* Statistics (_calculate_statistics and its helpers) *)

\* dict.get(key, default)
Get(d, key, default) == IF key \in DOMAIN d THEN d[key] ELSE default

\* the empty dict
EmptyDict == [k \in {} |-> 0]

\* _count_flare_types
_count_flare_types(flares) ==
    LET types == {Get(flares[k], "flare_type", "unknown") : k \in DOMAIN flares}
    IN  [t \in types |->
            Cardinality({k \in DOMAIN flares : Get(flares[k], "flare_type", "unknown") = t})]

DaysInMonth(month) ==
    IF month = 2 THEN 29
    ELSE IF month \in {4, 6, 9, 11} THEN 30
    ELSE 31

\* whether datetime.fromisoformat accepts the timestamp (2024 is a leap year)
Parseable(ts) ==
    /\ ts[2] \in 1..12
    /\ ts[3] \in 1..DaysInMonth(ts[2])
    /\ ts[4] \in 0..23
    /\ ts[5] \in 0..59
    /\ ts[6] \in 0..59

RECURSIVE HourCounts(_, _)
\* the dict hour_counts after the loop at lines 377-383 over the remaining
\* timestamps, as its items in insertion order
HourCounts(timestamps, counts) ==
    IF timestamps = <<>> THEN counts
    ELSE LET ts == Head(timestamps)
             hour == ts[4]
             at == {k \in DOMAIN counts : counts[k].hour = hour}
         IN  IF ~Parseable(ts) THEN HourCounts(Tail(timestamps), counts)
             ELSE IF at = {}
             THEN HourCounts(Tail(timestamps),
                             Append(counts, [hour |-> hour, count |-> 1]))
             ELSE HourCounts(Tail(timestamps),
                             [k \in DOMAIN counts |->
                                IF k \in at
                                THEN [counts[k] EXCEPT !.count = @ + 1]
                                ELSE counts[k]])

\* the last item with the largest count
PeakHour_Last(counts) ==
    LET best == MaxOf({counts[k].count : k \in DOMAIN counts})
        last == MaxOf({k \in DOMAIN counts : counts[k].count = best})
    IN  counts[last].hour

\* max(hour_counts.items(), key=lambda x: x[1])[0]: the first item with the
\* largest count
PeakHour(counts) ==
    LET best == MaxOf({counts[k].count : k \in DOMAIN counts})
        first == MinOf({k \in DOMAIN counts : counts[k].count = best})
    IN  counts[first].hour

\* _analyze_temporal_distribution
_analyze_temporal_distribution(flares) ==
    IF flares = <<>> THEN EmptyDict
    ELSE LET hour_counts ==
                HourCounts([k \in DOMAIN flares |-> flares[k].timestamp], <<>>)
         IN  [hourly_distribution |-> hour_counts,
              peak_activity_hour |->
                 IF hour_counts # <<>> THEN PeakHour(hour_counts) ELSE 0]

\* the statistics with the percentage computed without the test for an
\* empty list
_calculate_statistics_Unguarded(flares, nanos, ea) ==
    [total_flares    |-> Len(flares),
     nanoflare_count |-> Len(nanos),
     nanoflare_percentage |-> Ratio(Len(nanos) * 100, Len(flares)),
     average_energy  |-> Get(ea, "average_energy", Ratio(0, 1)),
     total_energy    |-> Get(ea, "total_energy", 0),
     power_law_index |-> Get(ea, "power_law_index",
                             [kind |-> "default", value |-> DefaultPowerLawIndex]),
     energy_range    |-> Get(ea, "energy_range", <<0, 0>>),
     flare_types     |-> _count_flare_types(flares),
     temporal_distribution |-> _analyze_temporal_distribution(flares)]

\* _calculate_statistics
_calculate_statistics(flares, nanos, ea) ==
    [total_flares    |-> Len(flares),
     nanoflare_count |-> Len(nanos),
     nanoflare_percentage |->
        IF flares # <<>> THEN Ratio(Len(nanos) * 100, Len(flares)) ELSE Ratio(0, 1),
     average_energy  |-> Get(ea, "average_energy", Ratio(0, 1)),
     total_energy    |-> Get(ea, "total_energy", 0),
     power_law_index |-> Get(ea, "power_law_index",
                             [kind |-> "default", value |-> DefaultPowerLawIndex]),
     energy_range    |-> Get(ea, "energy_range", <<0, 0>>),
     flare_types     |-> _count_flare_types(flares),
     temporal_distribution |-> _analyze_temporal_distribution(flares)]

-----------------------------------------------------------------------------
(* Visualizations (_generate_visualizations and its helpers) *)

\* data[:1000]
TimeSeriesLimit == 1000

\* _generate_time_series_data
_generate_time_series_data(d) ==
    [i \in 1..Min(Len(d.rows), TimeSeriesLimit) |->
        [time |-> i - 1,
         intensity |-> IF d.ndim = 1 THEN d.rows[i] ELSE d.rows[i][1]]]

\* _generate_energy_histogram; `energy` is the bin centre, the exponent of
\* 10 ** ((bins[i] + bins[i+1]) / 2), in fortieths
_generate_energy_histogram(flares) ==
    LET energies == Energies_of(flares)
    IN  IF energies = <<>> THEN <<>>
        ELSE LET log_energies == [k \in DOMAIN energies |-> Log10(energies[k])]
                 hist == HistogramCounts(log_energies)
                 bins == HistogramEdges(log_energies)
             IN  [b \in 1..NumBins |->
                    [energy |-> bins[b] + bins[b + 1], count |-> hist[b]]]

\* the key Python compares for a fixed-width timestamp string
TimestampKey(ts) ==
    (((ts[2] * 100 + ts[3]) * 100 + ts[4]) * 100 + ts[5]) * 100 + ts[6]

RECURSIVE InsertByTimestamp(_, _)
InsertByTimestamp(x, s) ==
    IF s = <<>> THEN <<x>>
    ELSE IF TimestampKey(x.timestamp) <= TimestampKey(Head(s).timestamp)
    THEN <<x>> \o s
    ELSE <<Head(s)>> \o InsertByTimestamp(x, Tail(s))

RECURSIVE SortedByTimestamp(_)
\* sorted(s, key=lambda x: x['timestamp']): ascending and stable
SortedByTimestamp(s) ==
    IF s = <<>> THEN <<>>
    ELSE InsertByTimestamp(Head(s), SortedByTimestamp(Tail(s)))

\* the timeline with each entry's is_nanoflare read from the event's own flag
_generate_flare_timeline_OwnFlag(flares, nanos) ==
    SortedByTimestamp(
        [k \in DOMAIN flares |->
            [timestamp |-> flares[k].timestamp,
             intensity |-> flares[k].intensity,
             energy    |-> flares[k].energy,
             is_nanoflare |-> Get(flares[k], "is_nanoflare", FALSE),
             type      |-> Get(flares[k], "flare_type", "unknown")]])

\* _generate_flare_timeline
_generate_flare_timeline(flares, nanos) ==
    LET nano_timestamps == {nanos[k].timestamp : k \in DOMAIN nanos}
        timeline_data ==
            [k \in DOMAIN flares |->
                [timestamp |-> flares[k].timestamp,
                 intensity |-> flares[k].intensity,
                 energy    |-> flares[k].energy,
                 is_nanoflare |-> flares[k].timestamp \in nano_timestamps,
                 type      |-> Get(flares[k], "flare_type", "unknown")]]
    IN  SortedByTimestamp(timeline_data)

\* the plot with the counts accumulated from the first bin upwards
_generate_power_law_plot_Forward(flares) ==
    LET energies == Energies_of(flares)
    IN  IF energies = <<>> THEN <<>>
        ELSE LET log_energies == [k \in DOMAIN energies |-> Log10(energies[k])]
                 hist == HistogramCounts(log_energies)
                 bins == HistogramEdges(log_energies)
                 cumulative == [b \in 1..NumBins |-> SumSeq(SubSeq(hist, 1, b))]
                 keep == [b \in 1..NumBins |-> cumulative[b] > 0]
                 kept == SelectIdx(keep, 1, NumBins)
             IN  [k \in 1..Len(kept) |->
                    [energy |-> bins[kept[k]] + bins[kept[k] + 1],
                     cumulative_count |-> cumulative[kept[k]]]]

\* _generate_power_law_plot
_generate_power_law_plot(flares) ==
    LET energies == Energies_of(flares)
    IN  IF energies = <<>> THEN <<>>
        ELSE LET log_energies == [k \in DOMAIN energies |-> Log10(energies[k])]
                 hist == HistogramCounts(log_energies)
                 bins == HistogramEdges(log_energies)
                 cumulative == [b \in 1..NumBins |->
                                  SumSeq(SubSeq(hist, b, NumBins))]
                 keep == [b \in 1..NumBins |-> cumulative[b] > 0]
                 kept == SelectIdx(keep, 1, NumBins)
             IN  [k \in 1..Len(kept) |->
                    [energy |-> bins[kept[k]] + bins[kept[k] + 1],
                     cumulative_count |-> cumulative[kept[k]]]]

\* _generate_visualizations
_generate_visualizations(d, flares, nanos) ==
    [time_series      |-> _generate_time_series_data(d),
     energy_histogram |-> _generate_energy_histogram(flares),
     flare_timeline   |-> _generate_flare_timeline(flares, nanos),
     power_law_plot   |-> _generate_power_law_plot(flares)]

-----------------------------------------------------------------------------
(* The synthetic fallback generator (_generate_mock_analysis) *)

FlareTypes == {"nano", "micro", "minor", "major", "X-class"}

\* np.random.exponential(200) + 50 outcomes tried, in tenths: 60.0, 120.0
MockIntensities == {600, 1200}

\* np.random.normal(0, 2) outcomes tried, in tenths: -2.1, 2.0
MockAlphas == {-21, 20}

\* the random draws of one synthetic event
MockEventDraws ==
    [energy : PositiveEnergies, intensity : MockIntensities,
     alpha : MockAlphas, flare_type : FlareTypes]

\* the random draws of one call: the events (num_flares is their number) and
\* the two np.random.uniform(-2.5, -1.5) values, in tenths
\* np.random.randint(30, 80) is never 0; the model draws 1..MaxMockFlares
MockFlareCounts == 1..MaxMockFlares

MockDraws ==
    UNION {[events : [1..n -> MockEventDraws], power_law : {<<-22, -18>>}] :
             n \in MockFlareCounts}

\* the timestamp of synthetic event i (0-based), line 464
MockTimestamp(i) ==
    <<2024, 1 + (i \div 30), 1 + (i % 30), i % 24, (i * 15) % 60, 0>>

\* the dict built at lines 463-475 for event i (0-based)
MockFlare(i, d) ==
    [timestamp  |-> MockTimestamp(i),
     intensity  |-> d.intensity,
     energy     |-> d.energy,
     alpha      |-> d.alpha,
     peak_time  |-> 5,
     rise_time  |-> 1,
     decay_time |-> 3,
     background |-> 500,
     confidence |-> 5,
     flare_type |-> d.flare_type]

\* the test of the comprehension at line 479
MockNanoflareCriteria(f) ==
    Abs(f.alpha) > AlphaThreshold \/ f.flare_type = "nano"

\* max(0, int(20 * np.exp(-i / 3))) for i = 0..9
MockHistogramCounts == <<20, 14, 10, 7, 5, 3, 2, 1, 1, 0>>

\* [:20]
TimelineLimit == 20

\* the references of `refs` in the order sorted(flares, key=timestamp) gives
SortedRefs(h, refs) ==
    LET keyed == [k \in DOMAIN refs |-> [timestamp |-> h[refs[k]].timestamp,
                                         ref |-> refs[k]]]
        sorted == SortedByTimestamp(keyed)
    IN  [k \in DOMAIN sorted |-> sorted[k].ref]

\* _generate_mock_analysis: the dicts it creates and the result it returns.
\* len(nanoflares) / len(flares) at line 499 raises ZeroDivisionError when no
\* event was drawn.
_generate_mock_analysis(draw) ==
    LET num_flares == Len(draw.events)
        h == [i \in 1..num_flares |-> MockFlare(i - 1, draw.events[i])]
        flares == [i \in 1..num_flares |-> i]
        keep == [i \in 1..num_flares |-> MockNanoflareCriteria(h[i])]
        nanos == SelectIdx(keep, 1, num_flares)
        energies == Energies_of(Deref(h, flares))
        nano_energies == Energies_of(Deref(h, nanos))
        sorted == SortedRefs(h, flares)
    IN  [raised |-> num_flares = 0,
         heap |-> h,
         value |->
           [success |-> TRUE,
            separated_flares |-> flares,
            nanoflares |-> nanos,
            energy_analysis |->
               [total_energy   |-> SumSeq(energies),
                average_energy |-> Ratio(SumSeq(energies), Len(energies)),
                median_energy  |-> Median(energies),
                power_law_index |-> [kind |-> "random", value |-> draw.power_law[1]],
                nanoflare_energy_fraction |->
                   IF nano_energies # <<>>
                   THEN Ratio(SumSeq(nano_energies), SumSeq(energies))
                   ELSE Ratio(0, 1)],
            statistics |->
               [total_flares    |-> Len(flares),
                nanoflare_count |-> Len(nanos),
                nanoflare_percentage |-> Ratio(Len(nanos) * 100, Len(flares)),
                average_energy  |-> Ratio(SumSeq(energies), Len(energies)),
                power_law_index |-> [kind |-> "random", value |-> draw.power_law[2]]],
            visualizations |->
               [energy_histogram |->
                   [i \in 1..10 |-> [energy |-> 40 + 12 * (i - 1),
                                     count |-> MockHistogramCounts[i]]],
                flare_timeline |->
                   SubSeq(sorted, 1, Min(Len(sorted), TimelineLimit))],
            metadata |->
               [file_processed  |-> "mock_data.csv",
                processing_time |-> "now",
                data_points     |-> 1000,
                model_version   |-> "2.0.0-mock"]]]

-----------------------------------------------------------------------------
(* What analyze_file returns *)

\* the dict returned at lines 142-155
SuccessResult(path, pd, refs, nanos, ea, viz, stats) ==
    [success |-> TRUE,
     separated_flares |-> refs,
     nanoflares |-> nanos,
     energy_analysis |-> ea,
     statistics |-> stats,
     visualizations |-> viz,
     metadata |->
        [file_processed  |-> path,
         processing_time |-> "now",
         data_points     |-> Len(pd.rows),
         model_version   |-> "2.0.0"]]
\* a handler that reports the error and forgets the fallback payload
FailureEnvelope_NoFallback(message, mock) ==
    [success |-> FALSE, error |-> message]

\* the dict returned by the except clause at lines 160-164
FailureEnvelope(message, mock) ==
    [success |-> FALSE, error |-> message, fallback_data |-> mock]

-----------------------------------------------------------------------------
(* The predictor: ml_model.model.predict is an external, opaque function.   *)
(* Its outputs, and the random draws of the decoder, are enumerated in full *)
(* for one reference request and minimally for every other request: the    *)
(* decoder never reads the series (its original_data parameter is unused).  *)

\* the (window, group) positions, both 0-based, a draw may be needed for
Positions(W) == (0..(W - 1)) \X (0..(MaxGroups - 1))

ConstantDraws(W, a, e) ==
    [alpha |-> [q \in Positions(W) |-> a],
     energy |-> [q \in Positions(W) |-> e],
     energy_array |-> [i \in 1..W |-> e],
     class_array |-> [i \in 1..W |-> 9]]

DictPrediction(fp, ee, cl) ==
    [kind |-> "dict", flare_params |-> fp, energy_estimates |-> ee,
     classification |-> cl]

ArrayPrediction(fp) == [kind |-> "array", flare_params |-> fp]

\* every other request: the predictor raises, or returns one block per window
MinimalOutcomes(W) ==
    {[pred |-> Raised, rnd |-> ConstantDraws(W, 20, 1)],
     [pred |-> DictPrediction([i \in 1..W |-> Block(<<1200>>, 0)],
                              [i \in 1..W |-> 1], [i \in 1..W |-> 9]),
      rnd |-> ConstantDraws(W, 20, 1)]}

\* reference request, parameter blocks in full
DecodeOutcomes(W) ==
    {[pred |-> DictPrediction(fp, [i \in 1..W |-> 1], [i \in 1..W |-> 9]),
      rnd |-> [ConstantDraws(W, 20, 1) EXCEPT !.alpha = al]] :
        fp \in [1..W -> Blocks], al \in [Positions(W) -> DecodeAlphas]}

\* reference request, shapes of the prediction and energies in full
ShapeOutcomes(W) ==
    LET fp == [i \in 1..W |-> Block(<<IF i = 1 THEN 600 ELSE 1200>>, 0)]
        dicts == {DictPrediction(fp, ee, cl) :
                     ee \in {<<>>} \cup [1..W -> Energies],
                     cl \in {<<>>, [i \in 1..W |-> 9]}}
        draws == {[alpha |-> [q \in Positions(W) |-> a[q[1] + 1]],
                   energy |-> [q \in Positions(W) |-> e[q[1] + 1]],
                   energy_array |-> e,
                   class_array |-> [i \in 1..W |-> 9]] :
                     a \in [1..W -> Alphas], e \in [1..W -> PositiveEnergies]}
    IN  {[pred |-> p, rnd |-> r] : p \in dicts \cup {ArrayPrediction(fp)}, r \in draws}

ReferencePath == ".csv"

ReferenceData == DataFrame(ModelSequenceLength + (ModelSequenceLength \div 2), n_features)

PredictOutcomes(path, d, windows) ==
    IF path = ReferencePath /\ d = ReferenceData
    THEN DecodeOutcomes(Len(windows)) \cup ShapeOutcomes(Len(windows))
    ELSE MinimalOutcomes(Len(windows))

-----------------------------------------------------------------------------
(* Uploads (the /analyze route) *)

\* ALLOWED_EXTENSIONS
ALLOWED_EXTENSIONS == {"nc", "h5", "hdf5", "fits", "csv", "txt"}

\* client file names tried, as directory part, stem and extension ("" for a
\* name without a dot): a.csv, ../a.csv, b.csv, a
UploadNames ==
    {[dir |-> "", stem |-> "a", ext |-> "csv"],
     [dir |-> "../", stem |-> "a", ext |-> "csv"],
     [dir |-> "", stem |-> "b", ext |-> "csv"],
     [dir |-> "", stem |-> "a", ext |-> ""]}

\* allowed_file: the name has a dot and its last extension is allowed
allowed_file(filename) == filename.ext \in ALLOWED_EXTENSIONS

\* werkzeug's secure_filename: path separators and leading dots are removed,
\* so ../a.csv becomes a.csv
secure_filename(filename) == [stem |-> filename.stem, ext |-> filename.ext]

\* os.path.join(UPLOAD_FOLDER, filename) for the names tried
UploadPaths == {secure_filename(f) : f \in UploadNames}

\* no file at the path
Absent == 0

\* the upload folder as tempfile.mkdtemp() creates it
NoUploads == [path \in UploadPaths |-> Absent]

-----------------------------------------------------------------------------
(* The analyzer *)

\* __init__ and _initialize_models.  `raises` says where building the models
\* raised: "no", "before_model" (ml_model stays None, sequence_length 0 here)
\* or "after_model" (ml_model is built, but line 107 is not reached)
InitFailures == {"no", "before_model", "after_model"}

_initialize_models(available, raises) ==
    IF ~available
    THEN [initialized |-> FALSE, sequence_length |-> 0]
    ELSE [initialized |-> raises = "no",
          sequence_length |-> IF raises = "before_model" THEN 0
                              ELSE ModelSequenceLength]

NoError == [kind |-> "None"]

Exception(message) == [kind |-> "Exception", message |-> message]

Init ==
    /\ ML_AVAILABLE \in BOOLEAN
    /\ \E raises \in InitFailures :
          /\ initialized = _initialize_models(ML_AVAILABLE, raises).initialized
          /\ sequence_length = _initialize_models(ML_AVAILABLE, raises).sequence_length
    /\ pc = "idle"
    /\ file_path = ""
    /\ data = None
    /\ processed_data = None
    /\ sequences = <<>>
    /\ predictions = None
    /\ predictCalls = 0
    /\ heap = <<>>
    /\ ml_results = <<>>
    /\ nanoflares = <<>>
    /\ energy_analysis = None
    /\ visualizations = None
    /\ error = NoError
    /\ result = None
    /\ arg = None
    /\ ret = None
    /\ uploads = NoUploads
    /\ threads = <<>>

harness == <<arg, ret>>

server == <<uploads, threads>>

analyzer == <<ML_AVAILABLE, initialized, sequence_length>>

locals == <<data, processed_data, sequences, predictions, heap, ml_results,
            nanoflares, energy_analysis, visualizations>>

\* an exception leaves the try block: the locals are dead, the except clause
\* at line 157 runs next
Raise(message) ==
    /\ pc' = "except"
    /\ error' = Exception(message)
    /\ data' = None
    /\ processed_data' = None
    /\ sequences' = <<>>
    /\ predictions' = None
    /\ heap' = <<>>
    /\ ml_results' = <<>>
    /\ nanoflares' = <<>>
    /\ energy_analysis' = None
    /\ visualizations' = None
\* analyze_file without the availability test of line 117
Call_NoAvailabilityCheck ==
    /\ pc = "idle"
    /\ \E suffix \in Suffixes : file_path' = suffix
    /\ predictCalls' = 0
    /\ pc' = "load"
    /\ UNCHANGED <<analyzer, locals, error, result, harness, server>>

\* analyze_file is called with a path (line 572); line 117
Call ==
    /\ pc = "idle"
    /\ \E suffix \in Suffixes : file_path' = suffix
    /\ predictCalls' = 0
    /\ pc' = IF ~ML_AVAILABLE \/ ~initialized THEN "mock" ELSE "load"
    /\ UNCHANGED <<analyzer, locals, error, result, harness, server>>

\* lines 122-125
LoadDataFile ==
    /\ pc = "load"
    /\ \E outcome \in ReaderOutcomes(file_path) :
          /\ data' = _load_data_file(file_path, outcome)
          /\ pc' = IF data' = None THEN "mock" ELSE "preprocess"
    /\ UNCHANGED <<analyzer, file_path, processed_data, sequences, predictions,
                   predictCalls, heap, ml_results, nanoflares, energy_analysis,
                   visualizations, error, result, harness, server>>

\* line 128
PreprocessData ==
    /\ pc = "preprocess"
    /\ LET r == _preprocess_data(data)
       IN  IF r.raised
           THEN Raise(r.value)
           ELSE /\ processed_data' = r.value
                /\ pc' = "run_ml"
                /\ UNCHANGED <<data, sequences, predictions, heap, ml_results,
                               nanoflares, energy_analysis, visualizations, error>>
    /\ UNCHANGED <<analyzer, file_path, predictCalls, result, harness, server>>

\* line 131, _run_ml_analysis: windowing, predict, decoding
RunMLAnalysis ==
    /\ pc = "run_ml"
    /\ LET seg == SegmentSequences(AdjustColumns(processed_data), sequence_length)
       IN  IF seg.raised
           THEN Raise("range() arg 3 must not be zero") /\ UNCHANGED predictCalls
           ELSE \E o \in PredictOutcomes(file_path, data, seg.windows) :
                   /\ predictCalls' = predictCalls + 1
                   /\ IF o.pred = Raised
                      THEN Raise("predict failed")
                      ELSE LET conv == _convert_predictions_to_flares(o.pred, o.rnd)
                           IN  IF conv.raised
                               THEN Raise("cannot reshape array")
                               ELSE /\ sequences' = seg.windows
                                    /\ predictions' = o.pred
                                    /\ heap' = conv.flares
                                    /\ ml_results' = [k \in 1..Len(conv.flares) |-> k]
                                    /\ pc' = "detect"
                                    /\ UNCHANGED <<data, processed_data, nanoflares,
                                                   energy_analysis, visualizations,
                                                   error>>
    /\ UNCHANGED <<analyzer, file_path, result, harness, server>>

\* line 134
DetectNanoflares ==
    /\ pc = "detect"
    /\ LET r == _detect_nanoflares(heap, ml_results)
       IN  /\ heap' = r.heap
           /\ nanoflares' = r.nanoflares
    /\ pc' = "energies"
    /\ UNCHANGED <<analyzer, file_path, data, processed_data, sequences,
                   predictions, predictCalls, ml_results, energy_analysis,
                   visualizations, error, result, harness, server>>

\* line 137
AnalyzeEnergies ==
    /\ pc = "energies"
    /\ LET r == _analyze_energies(Deref(heap, ml_results), Deref(heap, nanoflares))
       IN  IF r.raised
           THEN Raise(r.value)
           ELSE /\ energy_analysis' = r.value
                /\ pc' = "visualize"
                /\ UNCHANGED <<data, processed_data, sequences, predictions, heap,
                               ml_results, nanoflares, visualizations, error>>
    /\ UNCHANGED <<analyzer, file_path, predictCalls, result, harness, server>>

\* line 140 with a timeline generator that writes its is_nanoflare value back
\* into the flare dicts
GenerateVisualizations_Marking ==
    /\ pc = "visualize"
    /\ visualizations' = _generate_visualizations(processed_data,
                              Deref(heap, ml_results), Deref(heap, nanoflares))
    /\ heap' = [o \in DOMAIN heap |->
                  ("is_nanoflare" :> (o \in Range(nanoflares))) @@ heap[o]]
    /\ pc' = "return"
    /\ UNCHANGED <<analyzer, file_path, data, processed_data, sequences,
                   predictions, predictCalls, ml_results, nanoflares,
                   energy_analysis, error, result, harness, server>>

\* line 140
GenerateVisualizations ==
    /\ pc = "visualize"
    /\ visualizations' = _generate_visualizations(processed_data,
                              Deref(heap, ml_results), Deref(heap, nanoflares))
    /\ pc' = "return"
    /\ UNCHANGED <<analyzer, file_path, data, processed_data, sequences,
                   predictions, predictCalls, heap, ml_results, nanoflares,
                   energy_analysis, error, result, harness, server>>

\* lines 142-155
ReturnResult ==
    /\ pc = "return"
    /\ result' = SuccessResult(file_path, processed_data, ml_results, nanoflares,
                    energy_analysis, visualizations,
                    _calculate_statistics(Deref(heap, ml_results),
                                          Deref(heap, nanoflares), energy_analysis))
    /\ pc' = "done"
    /\ UNCHANGED <<analyzer, file_path, locals, predictCalls, error, harness, server>>

TryStages == {"preprocess", "run_ml", "detect", "energies", "visualize", "return"}

\* an exception the stage's own code does not account for (MemoryError, a
\* failure inside numpy or pandas, ...) raised while the stage runs
UnexpectedException ==
    /\ pc \in TryStages
    /\ Raise("unexpected error in " \o pc)
    /\ UNCHANGED <<analyzer, file_path, predictCalls, result, harness, server>>

\* lines 118 and 125: return self._generate_mock_analysis(), inside the try
ReturnMock ==
    /\ pc = "mock"
    /\ \E draw \in MockDraws :
          LET mock == _generate_mock_analysis(draw)
          IN  IF mock.raised
              THEN Raise("division by zero") /\ UNCHANGED result
              ELSE /\ heap' = mock.heap
                   /\ result' = mock.value
                   /\ pc' = "done"
                   /\ UNCHANGED <<data, processed_data, sequences, predictions,
                                  ml_results, nanoflares, energy_analysis,
                                  visualizations, error>>
    /\ UNCHANGED <<analyzer, file_path, predictCalls, harness, server>>

\* lines 157-164.  The except clause is not itself guarded: an exception
\* raised by _generate_mock_analysis here leaves analyze_file.
ExceptHandler ==
    /\ pc = "except"
    /\ \E draw \in MockDraws :
          LET mock == _generate_mock_analysis(draw)
          IN  IF mock.raised
              THEN /\ pc' = "propagated"
                   /\ UNCHANGED <<heap, result>>
              ELSE /\ heap' = mock.heap
                   /\ result' = FailureEnvelope(error.message, mock.value)
                   /\ pc' = "done"
    /\ UNCHANGED <<analyzer, file_path, data, processed_data, sequences,
                   predictions, predictCalls, ml_results, nanoflares,
                   energy_analysis, visualizations, error, harness, server>>

\* the response is sent; the next request starts from a fresh frame
NextRequest ==
    /\ pc \in {"done", "propagated"}
    /\ pc' = "idle"
    /\ file_path' = ""
    /\ data' = None
    /\ processed_data' = None
    /\ sequences' = <<>>
    /\ predictions' = None
    /\ predictCalls' = 0
    /\ heap' = <<>>
    /\ ml_results' = <<>>
    /\ nanoflares' = <<>>
    /\ energy_analysis' = None
    /\ visualizations' = None
    /\ error' = NoError
    /\ result' = None
    /\ UNCHANGED <<analyzer, harness, server>>

Next ==
    \/ Call
    \/ LoadDataFile
    \/ PreprocessData
    \/ RunMLAnalysis
    \/ DetectNanoflares
    \/ AnalyzeEnergies
    \/ GenerateVisualizations
    \/ ReturnResult
    \/ UnexpectedException
    \/ ReturnMock
    \/ ExceptHandler
    \/ NextRequest

Spec == Init /\ [][Next]_vars

-----------------------------------------------------------------------------
(* Function-level specifications: the function under test is applied to an  *)
(* argument drawn by the initial state.                                     *)

\* no analyzer and no request: only arg, ret and pc are in use
HarnessInit(start, args) ==
    /\ ML_AVAILABLE = FALSE
    /\ initialized = FALSE
    /\ sequence_length = 0
    /\ pc = start
    /\ file_path = ""
    /\ data = None
    /\ processed_data = None
    /\ sequences = <<>>
    /\ predictions = None
    /\ predictCalls = 0
    /\ heap = <<>>
    /\ ml_results = <<>>
    /\ nanoflares = <<>>
    /\ energy_analysis = None
    /\ visualizations = None
    /\ error = NoError
    /\ result = None
    /\ arg \in args
    /\ ret = None
    /\ uploads = NoUploads
    /\ threads = <<>>

request == <<file_path, locals, predictCalls, error, result>>

\* series of every length and width, one- and two-dimensional
WindowArrays ==
    {Array1D(L) : L \in 0..MaxWinRows}
    \cup {Array2D(L, nc) : L \in 0..MaxWinRows, nc \in ColumnCounts}

WindowArgs == [data : WindowArrays, sequence_length : 1..MaxSeqLen]

InitWindow == HarnessInit("window_in", WindowArgs)

\* lines 200-226 of _run_ml_analysis applied to arg
Segment ==
    /\ pc = "window_in"
    /\ ret' = SegmentSequences(AdjustColumns(arg.data), arg.sequence_length)
    /\ pc' = "window_out"
    /\ UNCHANGED <<analyzer, request, arg, server>>

NextWindow == Segment

SpecWindow == InitWindow /\ [][NextWindow]_vars

\* how far around each class boundary the intensities are tried, in tenths
BoundaryMargin == 2

ClassBoundaries == {MicroThreshold, MinorThreshold, MajorThreshold, XClassThreshold}

IntensityPoints ==
    {0} \cup {t + d : t \in ClassBoundaries, d \in (-BoundaryMargin)..BoundaryMargin}

InitClassify == HarnessInit("classify_in", IntensityPoints \X IntensityPoints)

\* _classify_flare_type applied to the two intensities of arg
Classify ==
    /\ pc = "classify_in"
    /\ ret' = <<_classify_flare_type(arg[1]), _classify_flare_type(arg[2])>>
    /\ pc' = "classify_out"
    /\ UNCHANGED <<analyzer, request, arg, server>>

NextClassify == Classify

SpecClassify == InitClassify /\ [][NextClassify]_vars

\* how many events the energy analyzer is given
MaxEnergyEvents == 3

\* energies tried, in units of 1e26: negative, zero, 1e26, 1e27, 1e28
EnergyInputs == {-1, 0, 1, 10, 100}

\* the 'energy' values of the flares and, for each, whether it is in nanoflares
EnergyArgs ==
    UNION {[energies : [1..k -> EnergyInputs], nano : [1..k -> BOOLEAN]] :
             k \in 0..MaxEnergyEvents}

InitEnergies == HarnessInit("energies_in", EnergyArgs)

\* _analyze_energies applied to the flares of arg and the nanoflares among them
Energize ==
    /\ pc = "energies_in"
    /\ LET flares == [k \in DOMAIN arg.energies |-> [energy |-> arg.energies[k]]]
           kept == SelectIdx(arg.nano, 1, Len(arg.nano))
           nanos == [k \in DOMAIN kept |-> flares[kept[k]]]
       IN  ret' = _analyze_energies(flares, nanos)
    /\ pc' = "energies_out"
    /\ UNCHANGED <<analyzer, request, arg, server>>

NextEnergies == Energize

SpecEnergies == InitEnergies /\ [][NextEnergies]_vars

-----------------------------------------------------------------------------
(* The /analyze route served by concurrent threads (analyze_flares).  Each  *)
(* thread runs lines 551-576 for one request; the upload folder is shared.  *)

\* how many requests are served at the same time
MaxRequests == 2

Threads == 1..MaxRequests

\* the two servers with an /analyze route: enhanced_python_api.analyze_flares
\* and python_bridge.analyze_data
Routes == {"enhanced", "bridge"}

\* file.filename of a part sent without a file name
EmptyName == [dir |-> "", stem |-> "", ext |-> ""]

\* filepath before line 566 has run
NoPath == [stem |-> "", ext |-> ""]

\* the requests tried: without a 'file' part, with an empty file name, and
\* with each of the client file names
UploadRequests ==
    [route : Routes, has_file : {TRUE}, filename : UploadNames \cup {EmptyName}]
        \cup [route : Routes, has_file : {FALSE}, filename : {EmptyName}]

\* request t uploads a file of its own: its content is named by t
ThreadStart(t, req) ==
    [pc |-> "start", route |-> req.route, has_file |-> req.has_file,
     filename |-> req.filename, content |-> t, filepath |-> NoPath,
     read |-> Absent, invoked |-> FALSE, outcome |-> "", status |-> 0,
     error |-> ""]

\* how analyze_file ends: a missing or unreadable file gives the synthetic
\* result, a file that is read gives the real result, the synthetic one or the
\* success=false envelope
AnalysisOutcomes(read) ==
    IF read = Absent THEN {"fallback"} ELSE {"real", "fallback", "envelope"}

InitUpload ==
    /\ ML_AVAILABLE = TRUE
    /\ initialized = TRUE
    /\ sequence_length = ModelSequenceLength
    /\ pc = "serving"
    /\ file_path = ""
    /\ data = None
    /\ processed_data = None
    /\ sequences = <<>>
    /\ predictions = None
    /\ predictCalls = 0
    /\ heap = <<>>
    /\ ml_results = <<>>
    /\ nanoflares = <<>>
    /\ energy_analysis = None
    /\ visualizations = None
    /\ error = NoError
    /\ result = None
    /\ arg = None
    /\ ret = None
    /\ uploads = NoUploads
    /\ \E requests \in [Threads -> UploadRequests] :
          threads = [t \in Threads |-> ThreadStart(t, requests[t])]

\* lines 553-554 (python_bridge 67-68): no 'file' part, the response is a 400
RejectNoFile(t) ==
    /\ threads[t].pc = "start"
    /\ ~threads[t].has_file
    /\ threads' = [threads EXCEPT ![t].pc = "finished", ![t].status = 400,
                                  ![t].error = "No file provided"]
    /\ UNCHANGED <<analyzer, pc, request, harness, uploads>>

\* lines 556-557 (python_bridge 71-72): empty file name, the response is a 400
RejectEmptyName(t) ==
    /\ threads[t].pc = "start"
    /\ threads[t].has_file
    /\ threads[t].filename = EmptyName
    /\ threads' = [threads EXCEPT ![t].pc = "finished", ![t].status = 400,
                                  ![t].error = "No file selected"]
    /\ UNCHANGED <<analyzer, pc, request, harness, uploads>>

\* lines 559-560: the file type is not allowed, the response is a 400
RejectUpload(t) ==
    /\ threads[t].pc = "start"
    /\ threads[t].route = "enhanced"
    /\ threads[t].has_file
    /\ threads[t].filename # EmptyName
    /\ ~allowed_file(threads[t].filename)
    /\ threads' = [threads EXCEPT ![t].pc = "finished", ![t].status = 400,
                                  ![t].error = "File type not allowed"]
    /\ UNCHANGED <<analyzer, pc, request, harness, uploads>>

\* SaveUpload without the check of lines 559-560
SaveUpload_Unvalidated(t) ==
    /\ threads[t].pc = "start"
    /\ threads[t].route = "enhanced"
    /\ threads[t].has_file
    /\ threads[t].filename # EmptyName
    /\ uploads' = [uploads EXCEPT ![secure_filename(threads[t].filename)]
                                     = threads[t].content]
    /\ threads' = [threads EXCEPT ![t].pc = "saved",
                                  ![t].filepath = secure_filename(threads[t].filename)]
    /\ UNCHANGED <<analyzer, pc, request, harness>>

\* lines 565-567: file.save(filepath) creates or overwrites the file
SaveUpload(t) ==
    /\ threads[t].pc = "start"
    /\ threads[t].route = "enhanced"
    /\ threads[t].has_file
    /\ threads[t].filename # EmptyName
    /\ allowed_file(threads[t].filename)
    /\ uploads' = [uploads EXCEPT ![secure_filename(threads[t].filename)]
                                     = threads[t].content]
    /\ threads' = [threads EXCEPT ![t].pc = "saved",
                                  ![t].filepath = secure_filename(threads[t].filename)]
    /\ UNCHANGED <<analyzer, pc, request, harness>>

\* line 572: analyze_file reads the file now at filepath (a missing file makes
\* the reader raise and the analysis fall back to the synthetic result)
AnalyzeUpload(t) ==
    /\ threads[t].pc = "saved"
    /\ \E outcome \in AnalysisOutcomes(uploads[threads[t].filepath]) :
          threads' = [threads EXCEPT ![t].pc = "analyzed",
                                     ![t].read = uploads[threads[t].filepath],
                                     ![t].invoked = TRUE,
                                     ![t].outcome = outcome]
    /\ UNCHANGED <<analyzer, pc, request, harness, uploads>>

\* RemoveUpload without lines 575-578
RemoveUpload_Skipped(t) ==
    /\ threads[t].pc = "analyzed"
    /\ threads' = [threads EXCEPT ![t].pc = "finished", ![t].status = 200]
    /\ UNCHANGED <<analyzer, pc, request, harness, uploads>>

\* lines 575-580: os.remove(filepath), its failure ignored, and the response
RemoveUpload(t) ==
    /\ threads[t].pc = "analyzed"
    /\ uploads' = [uploads EXCEPT ![threads[t].filepath] = Absent]
    /\ threads' = [threads EXCEPT ![t].pc = "finished", ![t].status = 200]
    /\ UNCHANGED <<analyzer, pc, request, harness>>

\* python_bridge lines 75-89: the mock model is run on an empty dict and the
\* response built from it; the uploaded file is neither saved nor read
analyze_data(t) ==
    /\ threads[t].pc = "start"
    /\ threads[t].route = "bridge"
    /\ threads[t].has_file
    /\ threads[t].filename # EmptyName
    /\ threads' = [threads EXCEPT ![t].pc = "finished", ![t].status = 200,
                                  ![t].invoked = TRUE, ![t].outcome = "mock"]
    /\ UNCHANGED <<analyzer, pc, request, harness, uploads>>

NextUpload ==
    \E t \in Threads :
        \/ RejectNoFile(t)
        \/ RejectEmptyName(t)
        \/ RejectUpload(t)
        \/ SaveUpload(t)
        \/ AnalyzeUpload(t)
        \/ RemoveUpload(t)
        \/ analyze_data(t)

SpecUpload == InitUpload /\ [][NextUpload]_vars

-----------------------------------------------------------------------------
(* The decoder applied to the predictions of a two-window request *)

\* the windows of the reference request
DecodeWindows ==
    Len(SegmentSequences(AdjustColumns(_preprocess_data(ReferenceData).value),
                         ModelSequenceLength).windows)

InitDecode == HarnessInit("decode_in", DecodeOutcomes(DecodeWindows))

\* _convert_predictions_to_flares applied to arg
Decode ==
    /\ pc = "decode_in"
    /\ ret' = _convert_predictions_to_flares(arg.pred, arg.rnd)
    /\ pc' = "decode_out"
    /\ UNCHANGED <<analyzer, request, arg, server>>

NextDecode == Decode

SpecDecode == InitDecode /\ [][NextDecode]_vars

-----------------------------------------------------------------------------
(* The aggregator functions applied to a list of classified events *)

\* how many events the aggregator functions are given
MaxAggregateEvents == 2

\* timestamps tried: window 0 and window 1 of the decoder, and a string that
\* datetime.fromisoformat rejects (2024-02-30)
AggregateTimestamps ==
    {_generate_timestamp(0, 0), _generate_timestamp(1, 0), MockTimestamp(59)}

\* what is drawn for one event; amplitudes 60.0 and 120.0, energies 1e26, 1e28
AggregateDraws ==
    [timestamp : AggregateTimestamps, energy : {1, 100},
     amplitude : {600, 1200}, alpha : DecodeAlphas]

AggregateArgs == UNION {[1..k -> AggregateDraws] : k \in 0..MaxAggregateEvents}

\* the dict of lines 257-268 for the draw
AggregateFlare(d) ==
    [timestamp  |-> d.timestamp,
     intensity  |-> Abs(d.amplitude),
     energy     |-> d.energy,
     alpha      |-> d.alpha,
     peak_time  |-> 2,
     rise_time  |-> 1,
     decay_time |-> 3,
     background |-> 100,
     confidence |-> DefaultConfidence,
     flare_type |-> _classify_flare_type(d.amplitude)]

InitAggregate == HarnessInit("aggregate_in", AggregateArgs)

\* _detect_nanoflares on the events of arg, then the timeline, the power-law
\* plot and the two counting functions of the statistics on its result
Aggregate ==
    /\ pc = "aggregate_in"
    /\ LET refs == [k \in DOMAIN arg |-> k]
           det == _detect_nanoflares([k \in DOMAIN arg |-> AggregateFlare(arg[k])], refs)
           flares == Deref(det.heap, refs)
           nanos == Deref(det.heap, det.nanoflares)
       IN  ret' = [flares |-> flares,
                   nanoflares |-> nanos,
                   flare_timeline |-> _generate_flare_timeline(flares, nanos),
                   power_law_plot |-> _generate_power_law_plot(flares),
                   flare_types |-> _count_flare_types(flares),
                   temporal_distribution |-> _analyze_temporal_distribution(flares)]
    /\ pc' = "aggregate_out"
    /\ UNCHANGED <<analyzer, request, arg, server>>

NextAggregate == Aggregate

SpecAggregate == InitAggregate /\ [][NextAggregate]_vars

-----------------------------------------------------------------------------
(* _generate_timestamp applied to the positions of two events *)

\* the largest window index and the largest group index tried (0-based)
MaxWindowIndex == 4
MaxGroupIndex == 2

EventPositions == (0..MaxWindowIndex) \X (0..MaxGroupIndex)

InitTimestamp == HarnessInit("timestamp_in", EventPositions \X EventPositions)

\* _generate_timestamp applied to the two positions of arg
Timestamp ==
    /\ pc = "timestamp_in"
    /\ ret' = <<_generate_timestamp(arg[1][1], arg[1][2]),
                _generate_timestamp(arg[2][1], arg[2][2])>>
    /\ pc' = "timestamp_out"
    /\ UNCHANGED <<analyzer, request, arg, server>>

NextTimestamp == Timestamp

SpecTimestamp == InitTimestamp /\ [][NextTimestamp]_vars

-----------------------------------------------------------------------------
(* The timestamp formula of the synthetic events (line 464) on two indices *)

\* np.random.randint(30, 80): the event count stays below this number
MockCountLimit == 80

\* the indices range(num_flares) can take: the largest count is one below the
\* limit and the largest index one below the count
MockIndices == 0..(MockCountLimit - 2)

InitMockTimestamp == HarnessInit("mock_timestamp_in", MockIndices \X MockIndices)

MockTimestamps ==
    /\ pc = "mock_timestamp_in"
    /\ ret' = <<MockTimestamp(arg[1]), MockTimestamp(arg[2])>>
    /\ pc' = "mock_timestamp_out"
    /\ UNCHANGED <<analyzer, request, arg, server>>

NextMockTimestamp == MockTimestamps

SpecMockTimestamp == InitMockTimestamp /\ [][NextMockTimestamp]_vars

-----------------------------------------------------------------------------
(* Claims *)

\* analyze_file has returned the dict of lines 142-155
RealReturned ==
    pc = "done" /\ error = NoError /\ result.metadata.model_version = "2.0.0"

\* analyze_file has returned the generator's result itself (lines 118, 125)
MockReturned ==
    pc = "done" /\ error = NoError /\ result.metadata.model_version = "2.0.0-mock"

\* analyze_file has returned the envelope of the except clause
EnvelopeReturned == pc = "done" /\ error # NoError

\* the generator's result inside what was returned
FallbackPayload == IF error = NoError THEN result ELSE result.fallback_data

MockTopKeys ==
    {"success", "separated_flares", "nanoflares", "energy_analysis",
     "statistics", "visualizations", "metadata"}

\* r is a whole result of the generator: every section present, at least one
\* event, every reference alive
CompleteFallback(r) ==
    /\ DOMAIN r = MockTopKeys
    /\ r.success = TRUE
    /\ r.metadata.model_version = "2.0.0-mock"
    /\ Len(r.separated_flares) >= 1
    /\ Range(r.separated_flares) \subseteq DOMAIN heap
    /\ Range(r.nanoflares) \subseteq DOMAIN heap
    /\ r.statistics.total_flares = Len(r.separated_flares)
    /\ r.statistics.nanoflare_count = Len(r.nanoflares)
    /\ r.energy_analysis.total_energy > 0
    /\ Len(r.visualizations.flare_timeline) >= 1

\* C1: analyze_file never lets an exception out; when a stage inside the try
\* raised, it returns {success: false, error: the message, fallback_data: a
\* whole result of the synthetic generator}.
C1_NeverRaises ==
    /\ pc # "propagated"
    /\ EnvelopeReturned =>
          /\ DOMAIN result = {"success", "error", "fallback_data"}
          /\ result.success = FALSE
          /\ result.error = error.message
          /\ CompleteFallback(result.fallback_data)

\* an exception raised while the visualizations were built ended in an envelope
C1_Witness ==
    /\ EnvelopeReturned
    /\ error.message = "unexpected error in visualize"
    /\ result.success = FALSE

\* C2: when the ML modules are unavailable, the models are not initialized,
\* the loader returned no data or the frame has no numeric data, the request
\* ends with a whole fallback result (returned as such or as fallback_data)
\* and predict was not called.
C2_DegradesWithoutPredict ==
    (/\ pc = "done"
     /\ \/ ~ML_AVAILABLE
        \/ ~initialized
        \/ (error = NoError /\ data = None)
        \/ error = Exception("No numerical data found in file"))
    => (predictCalls = 0 /\ CompleteFallback(FallbackPayload))

\* a frame without numeric data ended in an envelope, predict not called
C2_Witness ==
    /\ pc = "done"
    /\ ML_AVAILABLE /\ initialized
    /\ error = Exception("No numerical data found in file")
    /\ predictCalls = 0
    /\ result.fallback_data.success = TRUE

\* the keys of the dicts of a list
EntryKeys(entries) == {DOMAIN entries[k] : k \in DOMAIN entries}

\* the structure of a real-path result: its keys, section by section, and the
\* fields of the entries of each visualization
RealSchema(r) ==
    [top |-> DOMAIN r,
     energy_analysis |-> DOMAIN r.energy_analysis,
     statistics |-> DOMAIN r.statistics,
     visualizations |-> DOMAIN r.visualizations,
     energy_histogram |-> EntryKeys(Get(r.visualizations, "energy_histogram", <<>>)),
     flare_timeline |-> EntryKeys(Get(r.visualizations, "flare_timeline", <<>>))]

\* the same of a result of the generator, whose timeline holds references to
\* the flare dicts
MockSchema(r, h) ==
    [top |-> DOMAIN r,
     energy_analysis |-> DOMAIN r.energy_analysis,
     statistics |-> DOMAIN r.statistics,
     visualizations |-> DOMAIN r.visualizations,
     energy_histogram |-> EntryKeys(Get(r.visualizations, "energy_histogram", <<>>)),
     flare_timeline |-> EntryKeys(Deref(h, Get(r.visualizations, "flare_timeline", <<>>)))]

\* a successful real-path result: one window, one event of amplitude 120.0
SampleRealResult ==
    LET pd == Array2D(ModelSequenceLength, n_features)
        o == [pred |-> DictPrediction(<<Block(<<1200>>, 0)>>, <<1>>, <<9>>),
              rnd |-> ConstantDraws(1, 20, 1)]
        h0 == _convert_predictions_to_flares(o.pred, o.rnd).flares
        refs == [k \in 1..Len(h0) |-> k]
        det == _detect_nanoflares(h0, refs)
        ea == _analyze_energies(Deref(det.heap, refs), Deref(det.heap, det.nanoflares)).value
        viz == _generate_visualizations(pd, Deref(det.heap, refs),
                                        Deref(det.heap, det.nanoflares))
    IN  SuccessResult(".csv", pd, refs, det.nanoflares, ea, viz,
                      _calculate_statistics(Deref(det.heap, refs),
                                            Deref(det.heap, det.nanoflares), ea))

\* C3: the result of the synthetic generator has the structure of a
\* successful real-path result: the same top-level keys, the same keys in
\* energy_analysis, statistics and visualizations, and visualization entries
\* with the same fields.
C3_MockSchemaIdentical ==
    (pc = "done" /\ FallbackPayload.metadata.model_version = "2.0.0-mock")
    => MockSchema(FallbackPayload, heap) = RealSchema(SampleRealResult)

\* C4: in every result analyze_file produces, real or synthetic, each member
\* of nanoflares is one of the objects of separated_flares and has
\* is_nanoflare = true.
C4_NanoflareSuperset ==
    pc = "done" =>
        LET r == FallbackPayload
        IN  \A o \in Range(r.nanoflares) :
               /\ o \in Range(r.separated_flares)
               /\ "is_nanoflare" \in DOMAIN heap[o]
               /\ heap[o].is_nanoflare = TRUE

\* C5: on the real path an event of separated_flares is in nanoflares if and
\* only if abs(alpha) > 2.0 or intensity < 100 or flare_type = 'nano'.
C5_RealNanoflarePredicate ==
    RealReturned =>
        \A o \in Range(result.separated_flares) :
            (o \in Range(result.nanoflares))
            <=> (\/ Abs(heap[o].alpha) > 20
                 \/ heap[o].intensity < 1000
                 \/ heap[o].flare_type = "nano")

\* a real result with an event that is a nanoflare by its intensity alone and
\* an event that meets no criterion
C5_Witness ==
    /\ RealReturned
    /\ \E o \in Range(result.nanoflares) :
          /\ heap[o].intensity < 1000
          /\ Abs(heap[o].alpha) <= 20
          /\ heap[o].flare_type # "nano"
    /\ \E o \in Range(result.separated_flares) : o \notin Range(result.nanoflares)

\* C6: the generator selects its nanoflares with the predicate of the real
\* path: abs(alpha) > 2.0 or intensity < 100 or flare_type = 'nano'.
C6_MockSamePredicate ==
    (pc = "done" /\ FallbackPayload.metadata.model_version = "2.0.0-mock")
    => \A o \in Range(FallbackPayload.separated_flares) :
          (o \in Range(FallbackPayload.nanoflares))
          <=> (\/ Abs(heap[o].alpha) > 20
               \/ heap[o].intensity < 1000
               \/ heap[o].flare_type = "nano")

\* the class the thresholds give an intensity, in tenths
ClassOfIntensity(intensity) ==
    IF intensity > 10000 THEN "X-class"
    ELSE IF intensity > 5000 THEN "major"
    ELSE IF intensity > 1000 THEN "minor"
    ELSE IF intensity > 500 THEN "micro"
    ELSE "nano"

\* C7: every event decoded on the real path has the flare_type its own
\* intensity gives through the thresholds, for negative amplitudes too.
C7_TypeFromIntensity ==
    (pc \in {"detect", "energies", "visualize", "return"} \/ RealReturned)
    => \A o \in DOMAIN heap :
          heap[o].flare_type = ClassOfIntensity(heap[o].intensity)

ClassRank(class) ==
    CASE class = "nano" -> 1
      [] class = "micro" -> 2
      [] class = "minor" -> 3
      [] class = "major" -> 4
      [] class = "X-class" -> 5

\* the class whose interval holds the intensity: [0, 50], (50, 100],
\* (100, 500], (500, 1000], (1000, inf), in tenths
IntervalRank(intensity) ==
    1 + Cardinality({b \in {500, 1000, 5000, 10000} : intensity > b})

\* C8: _classify_flare_type sorts the non-negative intensities into five
\* ordered classes with boundaries 50, 100, 500, 1000, each boundary value in
\* the lower class, and never gives the smaller of two intensities the
\* stronger class.
C8_ClassificationMonotone ==
    pc = "classify_out" =>
        /\ ret[1] \in FlareTypes /\ ret[2] \in FlareTypes
        /\ ClassRank(ret[1]) = IntervalRank(arg[1])
        /\ ClassRank(ret[2]) = IntervalRank(arg[2])
        /\ (arg[1] < arg[2] => ClassRank(ret[1]) <= ClassRank(ret[2]))

\* the boundary 50.0 and the value just above it fall in different classes
C8_Witness ==
    /\ pc = "classify_out"
    /\ arg = <<500, 501>>
    /\ ret = <<"nano", "micro">>

\* abs(amplitude) of the whole groups of a block, in order
GroupAmplitudes(block) ==
    IF Len(block) >= 5
    THEN [g \in 1..(Len(block) \div 5) |-> Abs(block[5 * (g - 1) + 1])]
    ELSE <<>>

\* abs(amplitude) of the groups above 0.1, window after window
QualifyingAmplitudes(blocks) ==
    LET all == Flatten([i \in DOMAIN blocks |-> GroupAmplitudes(blocks[i])])
        kept == SelectIdx([k \in DOMAIN all |-> all[k] > 1], 1, Len(all))
    IN  [k \in DOMAIN kept |-> all[kept[k]]]

\* C9: the decoder produces no event for a group with abs(amplitude) <= 0.1
\* and exactly one for each group above it: the decoded events are, in order,
\* the qualifying groups, and each has intensity > 0.1.
C9_AmplitudeFilter ==
    pc = "detect" =>
        /\ [k \in DOMAIN heap |-> heap[k].intensity]
              = QualifyingAmplitudes(predictions.flare_params)
        /\ \A k \in DOMAIN heap : heap[k].intensity > 1

\* a decode in which a group at the threshold was dropped and one above kept
C9_Witness ==
    /\ pc = "detect"
    /\ \E i \in DOMAIN predictions.flare_params :
          GroupAmplitudes(predictions.flare_params[i]) = <<1>>
    /\ \E i \in DOMAIN predictions.flare_params :
          GroupAmplitudes(predictions.flare_params[i]) = <<2>>
    /\ Len(heap) = 1

\* C10: for a series of length L >= sequence_length the windows start at
\* 0, stride, 2*stride, ... (stride = sequence_length // 2), each has
\* sequence_length rows, the last one ends at or before L, and every sample
\* index in [0, L) lies in at least one window.
C10_WindowingCoverage ==
    LET n == arg.sequence_length
        L == Len(arg.data.rows)
    IN  (pc = "window_out" /\ n >= 2 /\ L >= n) =>
           /\ ~ret.raised
           /\ Len(ret.windows) >= 1
           /\ Len(ret.starts) = Len(ret.windows)
           /\ \A k \in DOMAIN ret.starts : ret.starts[k] = (k - 1) * (n \div 2)
           /\ \A k \in DOMAIN ret.windows : Len(ret.windows[k]) = n
           /\ ret.starts[Len(ret.starts)] + n <= L
           /\ \A idx \in 0..(L - 1) :
                 \E k \in DOMAIN ret.starts :
                    ret.starts[k] <= idx /\ idx < ret.starts[k] + n

\* C11: for a series shorter than sequence_length (the empty series
\* included) exactly one window is produced: its first L rows are the
\* column-adjusted series in order and all its other rows are zero.
C11_DegenerateWindowing ==
    LET n == arg.sequence_length
        L == Len(arg.data.rows)
        adjusted == AdjustColumns(arg.data).rows
    IN  (pc = "window_out" /\ n >= 2 /\ L < n) =>
           /\ ~ret.raised
           /\ Len(ret.windows) = 1
           /\ Len(ret.windows[1]) = n
           /\ \A r \in 1..n :
                 ret.windows[1][r] = IF r <= L THEN adjusted[r]
                                     ELSE [c \in 1..n_features |-> 0]

\* a one-column series of two samples padded to a window of four rows
C11_Witness ==
    /\ pc = "window_out"
    /\ arg.sequence_length = 4
    /\ arg.data = Array1D(2)
    /\ ret.windows = <<<< <<11, 0>>, <<21, 0>>, <<0, 0>>, <<0, 0>> >>>>

\* C12: windowing has no error condition: for every sequence_length > 0,
\* sequence_length = 1 included, it ends without raising and returns at least
\* one window (the stride being max(1, sequence_length // 2)).
C12_WindowerNeverRaises ==
    (pc = "window_out" /\ arg.sequence_length > 0) =>
        /\ ~ret.raised
        /\ Len(ret.windows) >= 1

\* C13: _analyze_energies reports an error object instead of raising when
\* the event list is empty or holds no positive energy, so that the result is
\* still returned with success = true.
C13_ErrorObjectNotRaise ==
    (pc = "energies_out" /\ \A k \in DOMAIN arg.energies : arg.energies[k] <= 0)
    => (~ret.raised /\ DOMAIN ret.value = {"error"})

\* the bins with at least one event, counted on the returned counts
PopulatedBins(counts) == Cardinality({b \in DOMAIN counts : counts[b] > 0})

\* C14: _analyze_energies returns power_law_index -2.0 and fits nothing when
\* fewer than 3 of the 20 histogram bins are populated, and fits if and only
\* if at least 3 are.
C14_PowerLawFallback ==
    (pc = "energies_out" /\ ~ret.raised /\ "power_law_index" \in DOMAIN ret.value)
    => LET populated == PopulatedBins(ret.value.energy_distribution.counts)
       IN  /\ populated < 3 =>
                ret.value.power_law_index = [kind |-> "default", value |-> -20]
           /\ populated >= 3 => ret.value.power_law_index.kind = "polyfit"
           /\ Len(ret.value.energy_distribution.counts) = 20

\* three energies in three bins: the index is fitted
C14_Witness ==
    /\ pc = "energies_out"
    /\ arg.energies = <<1, 10, 100>>
    /\ PopulatedBins(ret.value.energy_distribution.counts) = 3
    /\ ret.value.power_law_index.kind = "polyfit"

\* whether a log-energy, in twentieths, lies in bin b of the edges: bins are
\* closed on the left, the last one on both sides
InBin(v, edges, b) ==
    /\ edges[b] <= v
    /\ \/ v < edges[b + 1]
       \/ b = Len(edges) - 1 /\ v = edges[b + 1]

\* C16: for a non-empty list of positive energies, all equal or not,
\* energy_distribution has 21 strictly increasing edges and 20 counts, every
\* event falls in exactly one bin and the counts add up to the number of events.
C16_HistogramShape ==
    (/\ pc = "energies_out"
     /\ arg.energies # <<>>
     /\ \A k \in DOMAIN arg.energies : arg.energies[k] > 0)
    => /\ ~ret.raised
       /\ "energy_distribution" \in DOMAIN ret.value
       /\ LET bins == ret.value.energy_distribution.bins
              counts == ret.value.energy_distribution.counts
              v(k) == 20 * Log10(arg.energies[k])
          IN  /\ Len(bins) = 21
              /\ Len(counts) = 20
              /\ \A b \in 1..20 : bins[b] < bins[b + 1]
              /\ \A k \in DOMAIN arg.energies :
                    Cardinality({b \in 1..20 : InBin(v(k), bins, b)}) = 1
              /\ \A b \in 1..20 :
                    counts[b] = Cardinality({k \in DOMAIN arg.energies :
                                                InBin(v(k), bins, b)})
              /\ SumSeq(counts) = Len(arg.energies)

\* two events of the same energy: the range is widened around it and both
\* fall in the bin that starts at the energy itself
C16_Witness ==
    /\ pc = "energies_out"
    /\ arg.energies = <<10, 10>>
    /\ ret.value.energy_distribution.bins[1] = 10
    /\ ret.value.energy_distribution.bins[21] = 30
    /\ ret.value.energy_distribution.counts[11] = 2

\* C15: in every result with an energy analysis, real or synthetic,
\* nanoflare_energy_fraction is the sum of the nanoflares' energies over the
\* sum of all energies: it lies in [0, 1], is 0 when there is no nanoflare
\* and 1 when every event is a nanoflare.
C15_EnergyFractionBound ==
    (pc = "done" /\ "nanoflare_energy_fraction" \in DOMAIN FallbackPayload.energy_analysis)
    => LET r == FallbackPayload
           f == r.energy_analysis.nanoflare_energy_fraction
           nano == SumSeq(Energies_of(Deref(heap, r.nanoflares)))
           all == SumSeq(Energies_of(Deref(heap, r.separated_flares)))
       IN  /\ f.den > 0
           /\ 0 <= f.num /\ f.num <= f.den
           /\ f.num * all = nano * f.den
           /\ r.nanoflares = <<>> => f.num = 0
           /\ r.nanoflares = r.separated_flares => f.num = f.den

\* a real result in which some, not all, of the energy is in nanoflares
C15_Witness ==
    /\ RealReturned
    /\ Len(result.nanoflares) = 1
    /\ Len(result.separated_flares) = 2
    /\ result.energy_analysis.nanoflare_energy_fraction.num > 0
    /\ result.energy_analysis.nanoflare_energy_fraction.num
          < result.energy_analysis.nanoflare_energy_fraction.den

\* C17: every event of separated_flares of a real-path result carries an
\* is_nanoflare boolean, true exactly for the events that meet the nanoflare
\* predicate and false for the others; the events flagged true carry
\* nanoflare_confidence = min(abs(alpha) / 2.0, 1.0), within [0, 1].
C17_EveryEventFlagged ==
    RealReturned =>
        \A o \in Range(result.separated_flares) :
            /\ "is_nanoflare" \in DOMAIN heap[o]
            /\ heap[o].is_nanoflare
                  = (\/ Abs(heap[o].alpha) > 20
                     \/ heap[o].intensity < 1000
                     \/ heap[o].flare_type = "nano")
            /\ heap[o].is_nanoflare =>
                  /\ "nanoflare_confidence" \in DOMAIN heap[o]
                  /\ heap[o].nanoflare_confidence = Min(Abs(heap[o].alpha) * 5, 100)
                  /\ heap[o].nanoflare_confidence \in 0..100

\* C18: when the decoder yields no event analyze_file still returns
\* success = true, with energy_analysis = {error: 'No energy data available'},
\* statistics total_flares = 0, nanoflare_count = 0, nanoflare_percentage = 0,
\* and empty energy_histogram, flare_timeline and power_law_plot.
C18_ZeroEvents ==
    (RealReturned /\ result.separated_flares = <<>>) =>
        /\ result.success = TRUE
        /\ result.nanoflares = <<>>
        /\ result.energy_analysis = [error |-> "No energy data available"]
        /\ result.statistics.total_flares = 0
        /\ result.statistics.nanoflare_count = 0
        /\ result.statistics.nanoflare_percentage = [num |-> 0, den |-> 1]
        /\ result.visualizations.energy_histogram = <<>>
        /\ result.visualizations.flare_timeline = <<>>
        /\ result.visualizations.power_law_plot = <<>>

\* a real result for which predict was called and every group was at or
\* below the amplitude threshold
C18_Witness ==
    /\ RealReturned
    /\ predictCalls = 1
    /\ result.separated_flares = <<>>
    /\ result.statistics.total_flares = 0
    /\ \E i \in DOMAIN predictions.flare_params :
          GroupAmplitudes(predictions.flare_params[i]) = <<1>>

C20_RequestsIsolated ==
    \A t \in DOMAIN threads :
        (/\ threads[t].filepath # NoPath
         /\ threads[t].pc \in {"analyzed", "finished"})
        => threads[t].read = threads[t].content

\* C21: when a window's parameter block has at least 5 scalars and a length
\* that is not a multiple of 5, the remainder is dropped silently and the whole
\* groups of 5 are still decoded into events: the decode does not fail.
C21_RemainderTruncated ==
    (/\ pc = "decode_out"
     /\ \E i \in DOMAIN arg.pred.flare_params :
           /\ Len(arg.pred.flare_params[i]) >= 5
           /\ Len(arg.pred.flare_params[i]) % 5 # 0)
    => /\ ~ret.raised
       /\ [k \in DOMAIN ret.flares |-> ret.flares[k].intensity]
             = QualifyingAmplitudes(arg.pred.flare_params)

\* the fields a timeline entry takes from its event
TimelineFields(timestamp, intensity, energy, type) ==
    [timestamp |-> timestamp, intensity |-> intensity, energy |-> energy,
     type |-> type]

\* C22: the timeline has exactly one entry per event of separated_flares, in
\* ascending order of timestamp, and an entry's is_nanoflare is true if and
\* only if some nanoflare has its timestamp: two events with one timestamp
\* are both marked if either is a nanoflare.
C22_TimelineEntries ==
    pc = "aggregate_out" =>
        LET timeline == ret.flare_timeline
            ofEntry(k) == TimelineFields(timeline[k].timestamp, timeline[k].intensity,
                                         timeline[k].energy, timeline[k].type)
            ofEvent(k) == TimelineFields(ret.flares[k].timestamp,
                                         ret.flares[k].intensity,
                                         ret.flares[k].energy,
                                         ret.flares[k].flare_type)
        IN  /\ Len(timeline) = Len(ret.flares)
            /\ \A k \in DOMAIN ret.flares :
                  Cardinality({m \in DOMAIN timeline : ofEntry(m) = ofEvent(k)})
                     = Cardinality({m \in DOMAIN ret.flares : ofEvent(m) = ofEvent(k)})
            /\ \A k \in 1..(Len(timeline) - 1) :
                  TimestampKey(timeline[k].timestamp)
                     <= TimestampKey(timeline[k + 1].timestamp)
            /\ \A k \in DOMAIN timeline :
                  timeline[k].is_nanoflare
                     <=> \E n \in DOMAIN ret.nanoflares :
                            ret.nanoflares[n].timestamp = timeline[k].timestamp

\* two events with one timestamp, only the second a nanoflare: both entries
\* are marked
C22_Witness ==
    /\ pc = "aggregate_out"
    /\ Len(ret.flares) = 2
    /\ ret.flares[1].timestamp = ret.flares[2].timestamp
    /\ "is_nanoflare" \notin DOMAIN ret.flares[1]
    /\ ret.flares[2].is_nanoflare
    /\ ret.flare_timeline[1].is_nanoflare
    /\ ret.flare_timeline[2].is_nanoflare

\* the log-energies of the events, in twentieths
LogEnergies20(flares) == [k \in DOMAIN flares |-> 20 * Log10(flares[k].energy)]

\* the events whose energy is at or above the lower edge of bin b
AtOrAbove(flares, edges, b) ==
    Cardinality({k \in DOMAIN flares : LogEnergies20(flares)[k] >= edges[b]})

\* C23: in the power-law plot the cumulative_count of bin k is the sum of the
\* histogram counts of bins k..19, the number of events with energy at or
\* above the bin's lower edge; the counts never increase with k, the first is
\* the number of events, and exactly the bins with count zero are left out.
C23_CumulativePlot ==
    (pc = "aggregate_out" /\ ret.flares # <<>>) =>
        LET plot == ret.power_law_plot
            logs == [k \in DOMAIN ret.flares |-> Log10(ret.flares[k].energy)]
            edges == HistogramEdges(logs)
            hist == HistogramCounts(logs)
            emitted == SelectIdx([b \in 1..20 |-> AtOrAbove(ret.flares, edges, b) > 0],
                                 1, 20)
        IN  /\ Len(plot) = Len(emitted)
            /\ \A k \in DOMAIN plot :
                  /\ plot[k].cumulative_count = AtOrAbove(ret.flares, edges, emitted[k])
                  /\ plot[k].cumulative_count = SumSeq(SubSeq(hist, emitted[k], 20))
                  /\ plot[k].energy = edges[emitted[k]] + edges[emitted[k] + 1]
            /\ \A k \in 1..(Len(plot) - 1) :
                  plot[k].cumulative_count >= plot[k + 1].cumulative_count
            /\ plot[1].cumulative_count = Len(ret.flares)

\* two events of different energies: the count falls from 2 to 1 along the plot
C23_Witness ==
    /\ pc = "aggregate_out"
    /\ Len(ret.flares) = 2
    /\ ret.flares[1].energy # ret.flares[2].energy
    /\ Len(ret.power_law_plot) = 20
    /\ ret.power_law_plot[1].cumulative_count = 2
    /\ ret.power_law_plot[20].cumulative_count = 1

\* the timestamp the formula of the decoder gives window i, group j:
\* hour = floor(i*6 + j*0.5) mod 24, minute = floor(frac(i*6 + j*0.5) * 60)
ExpectedTimestamp(i, j) ==
    <<2024, 1, 1, (6 * i + (j \div 2)) % 24, IF j % 2 = 0 THEN 0 ELSE 30, 0>>

\* C24: the event of window i, group j gets the timestamp of 2024-01-01 with
\* hour floor(i*6 + j*0.5) mod 24, minute 0 for even j and 30 for odd j and
\* seconds 00; window 0, group 0 gives 2024-01-01T00:00:00Z.
C24_TimestampAssignment ==
    pc = "timestamp_out" =>
        /\ \A n \in 1..2 :
              /\ ret[n] = ExpectedTimestamp(arg[n][1], arg[n][2])
              /\ ret[n][4] \in 0..23
              /\ ret[n][5] \in {0, 30}
        /\ arg[1] = <<0, 0>> => ret[1] = <<2024, 1, 1, 0, 0, 0>>

\* window 4, group 1 wraps round to 00:30, window 0, group 0 is 00:00
C24_Witness ==
    /\ pc = "timestamp_out"
    /\ arg = <<<<4, 1>>, <<0, 0>>>>
    /\ ret = <<<<2024, 1, 1, 0, 30, 0>>, <<2024, 1, 1, 0, 0, 0>>>>

\* C25: of two decoded events, the one with the smaller offset i*6 + j*0.5
\* has a timestamp string that is not greater than the other's, so that
\* sorting by timestamp keeps the decode order.
C25_TimestampOrdering ==
    (pc = "timestamp_out" /\ 12 * arg[1][1] + arg[1][2] < 12 * arg[2][1] + arg[2][2])
    => TimestampKey(ret[1]) <= TimestampKey(ret[2])

\* the events whose timestamp fromisoformat accepts, in event order
ParseableEvents(flares) == {k \in DOMAIN flares : Parseable(flares[k].timestamp)}

\* the events counted for an hour of the day
EventsAtHour(flares, hour) ==
    {k \in ParseableEvents(flares) : flares[k].timestamp[4] = hour}

\* C26: flare_types gives each flare_type its number of events and its counts
\* add up to the number of events; hourly_distribution gives each hour of the
\* day the number of events of that hour and its counts add up to the number
\* of events with a parseable timestamp; peak_activity_hour has the largest
\* count and, among hours with that count, is the one met first in event order.
C26_StatisticsAggregates ==
    (pc = "aggregate_out" /\ ret.flares # <<>>) =>
        LET flares == ret.flares
            hourly == ret.temporal_distribution.hourly_distribution
            peak == ret.temporal_distribution.peak_activity_hour
            firstAt(hour) == MinOf(EventsAtHour(flares, hour))
        IN  /\ DOMAIN ret.flare_types = {flares[k].flare_type : k \in DOMAIN flares}
            /\ \A t \in DOMAIN ret.flare_types :
                  ret.flare_types[t]
                     = Cardinality({k \in DOMAIN flares : flares[k].flare_type = t})
            /\ SumSeq([k \in DOMAIN flares |->
                         IF \A m \in 1..(k - 1) : flares[m].flare_type # flares[k].flare_type
                         THEN ret.flare_types[flares[k].flare_type] ELSE 0])
                  = Len(flares)
            /\ {hourly[k].hour : k \in DOMAIN hourly}
                  = {flares[k].timestamp[4] : k \in ParseableEvents(flares)}
            /\ \A k, m \in DOMAIN hourly : hourly[k].hour = hourly[m].hour => k = m
            /\ \A k \in DOMAIN hourly :
                  hourly[k].count = Cardinality(EventsAtHour(flares, hourly[k].hour))
            /\ SumSeq([k \in DOMAIN hourly |-> hourly[k].count])
                  = Cardinality(ParseableEvents(flares))
            /\ hourly # <<>> =>
                  /\ EventsAtHour(flares, peak) # {}
                  /\ \A k \in DOMAIN hourly :
                        \/ hourly[k].count < Cardinality(EventsAtHour(flares, peak))
                        \/ /\ hourly[k].count = Cardinality(EventsAtHour(flares, peak))
                           /\ firstAt(peak) <= firstAt(hourly[k].hour)

\* an event at 06:00 followed by one at 00:00: both hours have one event and
\* the peak is the hour met first
C26_Witness ==
    /\ pc = "aggregate_out"
    /\ Len(ret.flares) = 2
    /\ ret.flares[1].timestamp[4] = 6
    /\ ret.flares[2].timestamp[4] = 0
    /\ Parseable(ret.flares[2].timestamp)
    /\ Len(ret.temporal_distribution.hourly_distribution) = 2
    /\ ret.temporal_distribution.peak_activity_hour = 6

InvalidUpload(r) ==
    \/ ~r.has_file
    \/ r.filename = EmptyName
    \/ r.route = "enhanced" /\ ~allowed_file(r.filename)

\* C29: a request without a 'file' part, with an empty file name or, on the
\* enhanced route, with an extension that is not allowed is answered 400 with
\* an error message; nothing of it is written to the upload folder and the
\* analyzer or model is not run for it.
C29_ValidationFirst ==
    \A t \in DOMAIN threads :
        InvalidUpload(threads[t]) =>
            /\ threads[t].pc \in {"start", "finished"}
            /\ threads[t].pc = "finished" =>
                  /\ threads[t].status = 400
                  /\ threads[t].error =
                        IF ~threads[t].has_file THEN "No file provided"
                        ELSE IF threads[t].filename = EmptyName THEN "No file selected"
                        ELSE "File type not allowed"
            /\ ~threads[t].invoked
            /\ threads[t].filepath = NoPath
            /\ \A path \in UploadPaths : uploads[path] # threads[t].content

\* a request with a refused extension is answered 400 while another request's
\* upload is in the folder
C29_Witness ==
    /\ threads # <<>>
    /\ threads[1].route = "enhanced"
    /\ threads[1].has_file
    /\ threads[1].filename = [dir |-> "", stem |-> "a", ext |-> ""]
    /\ threads[1].pc = "finished"
    /\ threads[1].status = 400
    /\ threads[2].pc = "saved"
    /\ uploads # NoUploads

\* C27: every timestamp of a synthetic event is an existing calendar date and
\* time of 2024, and two different event indices get different timestamps.
C27_MockTimestampsValid ==
    pc = "mock_timestamp_out" =>
        /\ Parseable(ret[1])
        /\ Parseable(ret[2])
        /\ arg[1] # arg[2] => ret[1] # ret[2]

\* whether some outcome of the reader gives _load_data_file data to return
HasLoaderBranch(suffix) ==
    \E outcome \in ReaderOutcomes(suffix) : _load_data_file(suffix, outcome) # None

\* C30: with the model initialized, a file whose extension upload validation
\* accepts is never sent to the synthetic fallback for its extension alone:
\* _load_data_file has a branch that reads it.
C30_AcceptedExtensionsLoaded ==
    (/\ ML_AVAILABLE
     /\ initialized
     /\ pc = "mock"
     /\ \E e \in ALLOWED_EXTENSIONS : file_path = "." \o e)
    => HasLoaderBranch(file_path)

=============================================================================
